---- MODULE Spec2Model ----
(***************************************************************************)
(* FlightAxis simulator connector (libraries/SITL/SIM_FlightAxis.cpp).     *)
(*                                                                         *)
(* Text is a sequence of one-character strings.  A pointer into a text is  *)
(* a 1-based index; index Len+1 is the terminating NUL, 0 is nullptr.      *)
(* Numbers read by atof are kept in hundredths (Scale); servo values in    *)
(* units of 1/2000 so that the demix average is exact.  The steps of one   *)
(* call of update() are cut at its blocking socket calls (connect, first   *)
(* recv, continuation recv); everything between two blocking calls is one  *)
(* action.                                                                 *)
(*                                                                         *)
(* Spec follows the SOAP exchange and what update() does with its reply.   *)
(* LiveSpec is Spec with every blocking socket call returning.  TickSpec   *)
(* follows the time base and the acceleration of update(), with            *)
(* exchange_data reduced to its effect on the state struct.                *)
(***************************************************************************)
EXTENDS Integers, Sequences, FiniteSets, TLC

(* ------------------------------------------------------------------ *)
(* Bounds of the model                                                 *)
(* ------------------------------------------------------------------ *)
MaxTicks == 2
SmallChunk == 16
MidChunk == 36
LargeChunk == 60
BigFill == 9900
MaxKinTicks == 3
LongStall == 20000001

(* ------------------------------------------------------------------ *)
(* Program constants                                                   *)
(* ------------------------------------------------------------------ *)
REPLY_SIZE == 10000
CL_KEY_LEN == 16
SEP_LEN == 4
SERVO_ZERO == 1000
NUM_SERVOS == 8

CL_KEY == <<"C","o","n","t","e","n","t","-","L","e","n","g","t","h",":"," ">>
CRLFCRLF == <<"\r","\n","\r","\n">>
HELI == <<"h","e","l","i">>
REV4 == <<"r","e","v","4">>

Digits == {"0","1","2","3","4","5","6","7","8","9"}
DigitVal(c) == CASE c = "0" -> 0 [] c = "1" -> 1 [] c = "2" -> 2 [] c = "3" -> 3
                 [] c = "4" -> 4 [] c = "5" -> 5 [] c = "6" -> 6 [] c = "7" -> 7
                 [] c = "8" -> 8 [] c = "9" -> 9
IsSpace(c) == c \in {" ", "\t", "\n", "\r"}

Min(S) == CHOOSE x \in S : \A y \in S : x <= y

(* ------------------------------------------------------------------ *)
(* libc string functions, as the code uses them                        *)
(* ------------------------------------------------------------------ *)
\* character at index i of a NUL-terminated text ("" stands for NUL)
CharAt(s, i) == IF i >= 1 /\ i <= Len(s) THEN s[i] ELSE ""

\* strstr(s + (from-1), k): index of the first occurrence at or after from, 0 if none
StrStr(s, from, k) ==
    LET cands == {i \in from..(Len(s) - Len(k) + 1) : SubSeq(s, i, i + Len(k) - 1) = k}
    IN IF cands = {} THEN 0 ELSE Min(cands)

\* index of the first character at or after i that is not white space
SkipSpace(s, i) ==
    LET stops == {j \in i..(Len(s) + 1) : ~IsSpace(CharAt(s, j))}
    IN Min(stops)

\* index one past the run of digits starting at i
DigitsEnd(s, i) ==
    LET stops == {j \in i..(Len(s) + 1) : CharAt(s, j) \notin Digits}
    IN Min(stops)

(* ------------------------------------------------------------------ *)
(* strtoul, with the width of unsigned long (64 bits, four 16-bit      *)
(* limbs, least significant first) and its saturation at ULONG_MAX     *)
(* ------------------------------------------------------------------ *)
LIMB == 65536
ULONG_MAX == <<LIMB - 1, LIMB - 1, LIMB - 1, LIMB - 1>>

\* v * 10 + d in 64 bits: [v |-> limbs, ovf |-> carry out of bit 63]
MulAdd10(v, d) ==
    LET t0 == v[1] * 10 + d
        t1 == v[2] * 10 + (t0 \div LIMB)
        t2 == v[3] * 10 + (t1 \div LIMB)
        t3 == v[4] * 10 + (t2 \div LIMB)
    IN [v |-> <<t0 % LIMB, t1 % LIMB, t2 % LIMB, t3 % LIMB>>, ovf |-> t3 \div LIMB > 0]

RECURSIVE StrToULDigits(_, _, _, _)
StrToULDigits(s, i, acc, ovf) ==
    IF CharAt(s, i) \notin Digits
    THEN IF ovf THEN ULONG_MAX ELSE acc
    ELSE LET r == MulAdd10(acc, DigitVal(s[i]))
         IN StrToULDigits(s, i + 1, r.v, ovf \/ r.ovf)

\* strtoul(s + (i-1), NULL, 10) for an unsigned decimal (optional white space and '+')
StrToUL(s, i) ==
    LET j == SkipSpace(s, i)
        k == IF CharAt(s, j) = "+" THEN j + 1 ELSE j
    IN StrToULDigits(s, k, <<0, 0, 0, 0>>, FALSE)

\* conversion of unsigned long to uint32_t: the low 32 bits
ToUint32(v) == <<v[1], v[2]>>

\* uint32_t + offset, modulo 2^32 (offset below 2^16)
AddUint32(c, off) ==
    LET t0 == c[1] + off
    IN <<t0 % LIMB, (c[2] + (t0 \div LIMB)) % LIMB>>

(* ------------------------------------------------------------------ *)
(* atof, in hundredths: white space, sign, digits, '.', digits         *)
(* ------------------------------------------------------------------ *)
Scale == 100

RECURSIVE IntVal(_, _, _)
\* value of the digits s[a..b-1]
IntVal(s, a, b) == IF a >= b THEN 0 ELSE IntVal(s, a, b - 1) * 10 + DigitVal(s[b - 1])

AToF(s, i) ==
    LET j == SkipSpace(s, i)
        neg == CharAt(s, j) = "-"
        k == IF CharAt(s, j) \in {"-", "+"} THEN j + 1 ELSE j
        e == DigitsEnd(s, k)
        whole == IntVal(s, k, e)
        f == IF CharAt(s, e) = "." THEN e + 1 ELSE e
        fe == DigitsEnd(s, f)
        d1 == IF fe > f THEN DigitVal(s[f]) ELSE 0
        d2 == IF fe > f + 1 THEN DigitVal(s[f + 1]) ELSE 0
        mag == whole * Scale + d1 * 10 + d2
    IN IF neg THEN -mag ELSE mag

(* ------------------------------------------------------------------ *)
(* Field table (declared in SIM_FlightAxis.h): ordered (key, ref)      *)
(* ------------------------------------------------------------------ *)
keytable ==
    << [key |-> <<"m","-","A","G","L">>, ref |-> "m_altitudeAGL_MTR"],
       [key |-> <<"m","-","P","o","s","X">>, ref |-> "m_aircraftPositionX_MTR"],
       [key |-> <<"m","-","P","o","s","Y">>, ref |-> "m_aircraftPositionY_MTR"] >>
num_keys == Len(keytable)
Refs == {keytable[i].ref : i \in 1..num_keys}

\* the state struct after construction
ZeroState == [r \in Refs |-> 0]

(* ------------------------------------------------------------------ *)
(* parse_reply.  A key that is not found leaves p == nullptr; the code *)
(* then adds to it and hands it to atof: undefined behaviour, whose    *)
(* outcomes are a fault or a read of unrelated memory (WILD pointer).  *)
(* ------------------------------------------------------------------ *)
WILD == -1
GarbageVals == {7 * Scale}
MSG_NOKEY == "Failed to find key"

\* p += strlen(key) + 1
ValueAt_NoDelim(p, key) == p + Len(key)
ValueAt(p, key) == p + Len(key) + 1

\* reply = p
ScanNext(reply, p) == p

RECURSIVE ParseFrom(_, _, _, _, _, _)
\* the loop from field i on, scanning from pos: the set of possible outcomes
ParseFrom(text, i, pos, st, lg, miss) ==
    IF i > num_keys
    THEN {[state |-> st, crashed |-> FALSE, scan |-> pos, missing |-> miss, log |-> lg]}
    ELSE
      LET key == keytable[i].key
          ref == keytable[i].ref
          p == IF pos = WILD THEN 0 ELSE StrStr(text, pos, key)
          found == pos # WILD /\ p # 0
          lg2 == IF pos # WILD /\ p = 0 THEN Append(lg, MSG_NOKEY) ELSE lg
          miss2 == IF pos # WILD /\ p = 0 THEN miss \cup {i} ELSE miss
          v == ValueAt(p, key)
      IN IF found /\ v <= Len(text) + 1
         THEN ParseFrom(text, i + 1, ScanNext(pos, v), [st EXCEPT ![ref] = AToF(text, v)], lg, miss)
         ELSE \* atof of an invalid pointer
              {[state |-> st, crashed |-> TRUE, scan |-> WILD, missing |-> miss2, log |-> lg2]}
              \cup UNION {ParseFrom(text, i + 1, WILD, [st EXCEPT ![ref] = g], lg2, miss2)
                            : g \in GarbageVals}

parse_reply(text, st) == ParseFrom(text, 1, 1, st, <<>>, {})

(* ------------------------------------------------------------------ *)
(* Actuator mapping of exchange_data (values in units of 1/2000)       *)
(* ------------------------------------------------------------------ *)
UNIT == 2000

\* (input.servos[i] - 1000) / 1000.0f
Normalize(p) == (p - SERVO_ZERO) * (UNIT \div 1000)

constrain_float(v, lo, hi) == IF v < lo THEN lo ELSE IF v > hi THEN hi ELSE v

\* swap first 4 and last 4 servos
SwapBlocks_Reverse(s) == [i \in 1..NUM_SERVOS |-> s[NUM_SERVOS + 1 - i]]
SwapBlocks(s) == [i \in 1..NUM_SERVOS |-> IF i <= 4 THEN s[i + 4] ELSE s[i - 4]]

\* roll/pitch from the three swashplate servos
Demix_Unclamped(s) ==
    [s EXCEPT ![1] = (s[1] - s[2]) + UNIT \div 2,
              ![2] = -(((s[1] + s[2]) \div 2) - s[3]) + UNIT \div 2]
Demix(s) ==
    LET swash1 == s[1]
        swash2 == s[2]
        swash3 == s[3]
        roll_rate == swash1 - swash2
        pitch_rate == -(((swash1 + swash2) \div 2) - swash3)
    IN [s EXCEPT ![1] = constrain_float(roll_rate + UNIT \div 2, 0, UNIT),
                 ![2] = constrain_float(pitch_rate + UNIT \div 2, 0, UNIT)]

ScaledServos(input, rev4, heli) ==
    LET s0 == [i \in 1..NUM_SERVOS |-> Normalize(input[i])]
        s1 == IF rev4 THEN SwapBlocks(s0) ELSE s0
    IN IF heli THEN Demix(s1) ELSE s1

\* "%.4f": the decimal sent, in units of 1/10000
Fmt4(v) == v * (10000 \div UNIT)

ChannelValues(input, rev4, heli) ==
    LET s == ScaledServos(input, rev4, heli) IN [i \in 1..NUM_SERVOS |-> Fmt4(s[i])]

(* ------------------------------------------------------------------ *)
(* Byte streams: a text followed by `fill` filler bytes (bytes that    *)
(* belong to no key, number or header)                                 *)
(* ------------------------------------------------------------------ *)
FILLER == "x"
Empty == [text |-> <<>>, fill |-> 0]
Size(b) == Len(b.text) + b.fill

\* the first n bytes of b, and b without them
Take(b, n) ==
    IF n <= Len(b.text) THEN [text |-> SubSeq(b.text, 1, n), fill |-> 0]
    ELSE [text |-> b.text, fill |-> n - Len(b.text)]
Drop(b, n) ==
    IF n <= Len(b.text) THEN [text |-> SubSeq(b.text, n + 1, Len(b.text)), fill |-> b.fill]
    ELSE [text |-> <<>>, fill |-> b.fill - (n - Len(b.text))]
Cat(a, b) == [text |-> a.text \o b.text, fill |-> a.fill + b.fill]

\* the buffer read as a C string (one filler character stands for a run of them)
CString(b) == IF b.fill > 0 THEN Append(b.text, FILLER) ELSE b.text

(* ------------------------------------------------------------------ *)
(* The simulator's side: inputs the connector can be given             *)
(* ------------------------------------------------------------------ *)
FrameStrings ==
    { <<"f","l","i","g","h","t","a","x","i","s">>,
      <<"f","l","i","g","h","t","a","x","i","s","-","h","e","l","i">>,
      <<"f","l","i","g","h","t","a","x","i","s","-","r","e","v","4">>,
      <<"f","l","i","g","h","t","a","x","i","s","-","h","e","l","i","-","r","e","v","4">> }

ServoInputs ==
    { <<1100, 1200, 1300, 1400, 1500, 1600, 1700, 1800>>,
      <<900, 2100, 1000, 2000, 1501, 1234, 1999, 65535>> }

StatusLine == <<"H","T","T","P","/","1",".","1"," ","2","0","0"," ","O","K","\r","\n">>

DigitChar(d) == CASE d = 0 -> "0" [] d = 1 -> "1" [] d = 2 -> "2" [] d = 3 -> "3"
                  [] d = 4 -> "4" [] d = 5 -> "5" [] d = 6 -> "6" [] d = 7 -> "7"
                  [] d = 8 -> "8" [] d = 9 -> "9"
RECURSIVE DecChars(_)
DecChars(n) == IF n < 10 THEN <<DigitChar(n)>> ELSE Append(DecChars(n \div 10), DigitChar(n % 10))

\* header block declaring the given length
Hdr(digits) == StatusLine \o CL_KEY \o digits \o CRLFCRLF

\* numeric texts with the values they denote (in hundredths)
N_zero == [txt |-> <<"0">>, val |-> 0]
N_12 == [txt |-> <<"1","2">>, val |-> 12 * Scale]
N_m2p5 == [txt |-> <<"-","2",".","5">>, val |-> -250]
N_3p07 == [txt |-> <<"3",".","0","7">>, val |-> 307]
N_p40 == [txt |-> <<"+","4","0",".","0","0">>, val |-> 40 * Scale]

\* one reading per field of the table, in table order
Readings ==
    { <<N_zero, N_zero, N_zero>>,
      <<N_12, N_m2p5, N_3p07>>,
      <<N_3p07, N_p40, N_12>> }

Tag(k, v) == <<"<">> \o k \o <<">">> \o v \o <<"<", "/">> \o k \o <<">">>
Assign(k, v) == k \o <<"=">> \o v \o <<";", " ">>

RECURSIVE BodyFrom(_, _, _, _)
\* fields i.. of reading r as XML elements (xml) or assignments, leaving out field `omit`
BodyFrom(r, i, omit, xml) ==
    IF i > num_keys THEN <<>>
    ELSE (IF i = omit THEN <<>>
          ELSE IF xml THEN Tag(keytable[i].key, r[i].txt)
          ELSE Assign(keytable[i].key, r[i].txt))
         \o BodyFrom(r, i + 1, omit, xml)
Body(r) == <<"<","r",">">> \o BodyFrom(r, 1, 0, TRUE) \o <<"<","/","r",">">>
BodyAssign(r) == BodyFrom(r, 1, 0, FALSE)
BodyWithout(r, omit) == <<"<","r",">">> \o BodyFrom(r, 1, omit, TRUE) \o <<"<","/","r",">">>

\* a response whose declared length is the length of its body
WellFormed(body, fill) == [text |-> Hdr(DecChars(Len(body) + fill)) \o body, fill |-> fill]
\* filler that brings a well-formed response with a 4-digit length to `total` bytes
FillTo(body, total) == total - (Len(Hdr(<<"0","0","0","0">>)) + Len(body))

R_typ == <<N_12, N_m2p5, N_3p07>>
R_alt == <<N_3p07, N_p40, N_12>>

WellFormedResponses ==
    {WellFormed(Body(r), 0) : r \in Readings}
    \cup {WellFormed(BodyAssign(R_alt), 0)}
    \cup {WellFormed(Body(R_typ), BigFill),
          WellFormed(Body(R_typ), FillTo(Body(R_typ), REPLY_SIZE - 1))}

DeclaredLengths ==
    { <<"1","0","0","0","0">>,
      <<"2","0","0","0","0">>,
      <<"4","2","9","4","9","6","7","2","9","5">>,
      <<"4","2","9","4","9","6","7","2","9","6">>,
      <<"1","8","4","4","6","7","4","4","0","7","3","7","0","9","5","5","1","6","1","6">> }

MalformedResponses ==
    { \* no Content-Length header
      [text |-> StatusLine \o CRLFCRLF \o Body(R_typ), fill |-> 0],
      \* Content-Length but no blank line
      [text |-> StatusLine \o CL_KEY \o <<"5","\r","\n">> \o Body(R_typ), fill |-> 0],
      \* exactly REPLY_SIZE bytes in all
      WellFormed(Body(R_typ), FillTo(Body(R_typ), REPLY_SIZE)),
      \* more bytes than the declared length
      [text |-> Hdr(<<"5">>) \o Body(R_typ), fill |-> 0],
      \* a declared total of REPLY_SIZE - 1 bytes, followed by more
      Cat(WellFormed(Body(R_typ), FillTo(Body(R_typ), REPLY_SIZE - 1)),
          [text |-> <<>>, fill |-> BigFill]) }
    \cup {[text |-> Hdr(d) \o Body(R_typ), fill |-> 0] : d \in DeclaredLengths}
    \cup {WellFormed(BodyWithout(R_typ, i), 0) : i \in 1..num_keys}

Responses == WellFormedResponses \cup MalformedResponses

\* what one recv of at most maxlen bytes can return with w still to arrive
RecvResults(w, maxlen) ==
    LET most == IF Size(w) < maxlen THEN Size(w) ELSE maxlen
        some == IF Len(w.text) > 0 THEN {SmallChunk, MidChunk, LargeChunk} ELSE {most \div 2}
    IN {-1, 0} \cup {m \in some \cup {most} : 1 <= m /\ m <= most}

(* ------------------------------------------------------------------ *)
(* Kinematic part of update().  Times are in microseconds, velocities  *)
(* in cm/s (hundredths, as atof delivers them), accelerations in units *)
(* of 1/100000 m/s^2.  A float that may be infinite or not a number is *)
(* a record [k, v]: k = "num" with value v, "inf" with sign v, "nan".  *)
(* ------------------------------------------------------------------ *)
ACC_UNIT == 100000
GRAVITY_MSS == 980665
ACCEL_LIMIT == 16
FLOAT_MANT == 24

Num(x) == [k |-> "num", v |-> x]
Inf(sgn) == [k |-> "inf", v |-> sgn]
NaN == [k |-> "nan", v |-> 0]
Sign(x) == IF x > 0 THEN 1 ELSE IF x < 0 THEN -1 ELSE 0
Abs(x) == IF x < 0 THEN -x ELSE x

RECURSIVE Pow2(_)
Pow2(n) == IF n = 0 THEN 1 ELSE 2 * Pow2(n - 1)
RECURSIVE BitLen(_)
BitLen(n) == IF n = 0 THEN 0 ELSE 1 + BitLen(n \div 2)

\* conversion of an unsigned integer to float: FLOAT_MANT significant bits, round to
\* nearest, ties to even
ToFloat(n) ==
    IF BitLen(n) <= FLOAT_MANT THEN n
    ELSE LET ulp == Pow2(BitLen(n) - FLOAT_MANT)
             lo == (n \div ulp) * ulp
             rest == n - lo
         IN IF 2 * rest < ulp THEN lo
            ELSE IF 2 * rest > ulp THEN lo + ulp
            ELSE IF (lo \div ulp) % 2 = 0 THEN lo ELSE lo + ulp

\* uint64_t dt = (now - last_time_us) * target_speedup: the difference converted to
\* float, multiplied by the speedup (a power of two num/den), truncated to an integer
DtOf(now, last, speedup) == (ToFloat(now - last) * speedup.num) \div speedup.den

RECURSIVE Pow10(_)
Pow10(n) == IF n = 0 THEN 1 ELSE 10 * Pow10(n - 1)
RECURSIVE Decimals(_, _, _)
\* the first n decimal digits of r / d (0 <= r < d), as an integer
Decimals(r, d, n) ==
    IF n = 0 THEN 0
    ELSE LET t == r * 10
         IN (t \div d) * Pow10(n - 1) + Decimals(t % d, d, n - 1)

\* (velocity_ef - last_velocity_ef) / dt_seconds for one component: dv in cm/s, dt in
\* microseconds, dt_seconds = dt * 1.0e-6f; the quotient in acceleration units
DivDt(dv, dt) ==
    IF dt = 0 THEN (IF dv = 0 THEN NaN ELSE Inf(Sign(dv)))
    ELSE LET n == Abs(dv) * 10000
         IN Num(Sign(dv) * ((n \div dt) * ACC_UNIT + Decimals(n % dt, dt, 5)))

\* float arithmetic on such values
FSub(a, x) == IF a.k = "num" THEN Num(a.v - x) ELSE a
FScale(m, a) ==
    IF a.k = "num" THEN Num(m * a.v)
    ELSE IF a.k = "inf" THEN (IF m = 0 THEN NaN ELSE Inf(m * a.v))
    ELSE NaN
FAdd(a, b) ==
    IF a.k = "nan" \/ b.k = "nan" THEN NaN
    ELSE IF a.k = "inf" /\ b.k = "inf" THEN (IF a.v = b.v THEN a ELSE NaN)
    ELSE IF a.k = "inf" THEN a
    ELSE IF b.k = "inf" THEN b
    ELSE Num(a.v + b.v)

\* constrain_float on such a value: not-a-number gives the middle of the range
constrain_float_nan(a, lo, hi) ==
    IF a.k = "nan" THEN Num((lo + hi) \div 2)
    ELSE IF a.k = "inf" THEN Num(IF a.v > 0 THEN hi ELSE lo)
    ELSE Num(constrain_float(a.v, lo, hi))

\* sine and cosine of a multiple of 90 degrees
Cos90(d) == LET q == (d \div 90) % 4 IN IF q = 0 THEN 1 ELSE IF q = 2 THEN -1 ELSE 0
Sin90(d) == LET q == (d \div 90) % 4 IN IF q = 1 THEN 1 ELSE IF q = 3 THEN -1 ELSE 0

\* dcm.from_euler(roll, pitch, yaw), the rows a, b, c of the matrix
from_euler(roll, pitch, yaw) ==
    LET cp == Cos90(pitch)
        sp == Sin90(pitch)
        sr == Sin90(roll)
        cr == Cos90(roll)
        sy == Sin90(yaw)
        cy == Cos90(yaw)
    IN << <<cp * cy, (sr * sp * cy) - (cr * sy), (cr * sp * cy) + (sr * sy)>>,
          <<cp * sy, (sr * sp * sy) + (cr * cy), (cr * sp * sy) - (sr * cy)>>,
          <<-sp, sr * cp, cr * cp>> >>

\* dcm.transposed() * v
MulTransposed(m, v) ==
    [i \in 1..3 |-> FAdd(FAdd(FScale(m[1][i], v[1]), FScale(m[2][i], v[2])),
                         FScale(m[3][i], v[3]))]

\* lines 264-269: accel_body from the two velocities, dt and the attitude matrix
AccelBody(vel, last_vel, dt, m) ==
    LET accel_ef == [i \in 1..3 |-> DivDt(vel[i] - last_vel[i], dt)]
        accel_g == [accel_ef EXCEPT ![3] = FSub(accel_ef[3], GRAVITY_MSS)]
        rotated == MulTransposed(m, accel_g)
    IN [i \in 1..3 |-> constrain_float_nan(rotated[i], -ACCEL_LIMIT * ACC_UNIT,
                                           ACCEL_LIMIT * ACC_UNIT)]

\* the attitude and velocity fields of a state snapshot: degrees, cm/s
KinZero == [att |-> <<0, 0, 0>>, vel |-> <<0, 0, 0>>]
KinSnapshots ==
    { [att |-> <<0, 0, 0>>, vel |-> <<100, -50, 0>>],
      [att |-> <<90, 0, 0>>, vel |-> <<101, -50, 2>>],
      [att |-> <<0, 90, 180>>, vel |-> <<-300, 0, 150>>] }

\* target_speedup, a power of two
Speedups == { [num |-> 1, den |-> 1], [num |-> 2, den |-> 1], [num |-> 1, den |-> 2] }

\* get_wall_time_us() at construction
WALL_START == 5000
\* what the wall clock can have advanced by between two readings
ClockSteps == {0, 1000, 4000, LongStall}

(* ------------------------------------------------------------------ *)
(* State                                                               *)
(* ------------------------------------------------------------------ *)
VARIABLES
    frame_str,          \* constructor argument
    heli_demix, rev4_servos, controller_started,
    state,              \* the keytable destinations (state struct)
    position, position_offset,
    frame_counter,
    pc,                 \* "idle" | "connect" | "recv_first" | "recv_more" | "returned" | "crashed"
    action,             \* SOAP action of the soap_request in progress
    servos,             \* input.servos of the update() in progress
    sock,               \* number of socket descriptors the connector holds open
    sends,              \* sock.send calls made by the soap_request in progress
    wire,               \* bytes of the response not yet received
    resp,               \* the response the simulator sends to this request
    reply, ret, expected_length,   \* locals of soap_request
    status,             \* how soap_request returned ("ok" for a non-null reply)
    recvs,              \* recv calls made by the soap_request in progress
    first_ret,          \* what its first recv returned
    printed,            \* diagnostics it has printed
    requests,           \* every soap_request made so far, in order
    sent,               \* the eight <item> values of the ExchangeData request in progress
    log,                \* printf output of the update() in progress (empty between updates)
    parse,              \* what parse_reply did in the last update()
    first_pos,          \* position converted from the first snapshot parse_reply wrote (<<>> before)
    target_speedup,     \* [num, den]
    wall_time_us,       \* the wall clock, as get_wall_time_us() reads it
    last_time_us, time_now_us,
    state_kin,          \* the attitude and velocity fields of the state struct
    velocity_ef, dcm, accel_body,
    last_velocity_ef,   \* local of the last update()
    dt_us,              \* local dt of the last update()
    exchanged           \* whether the exchange of the last update() gave a snapshot

vars == <<frame_str, heli_demix, rev4_servos, controller_started, state, position,
          position_offset, frame_counter, pc, action, servos, sock, sends, wire, resp, reply,
          ret, expected_length, status, recvs, first_ret, printed, requests, sent, log, parse,
          first_pos, target_speedup, wall_time_us, last_time_us, time_now_us, state_kin,
          velocity_ef, dcm, accel_body, last_velocity_ef, dt_us, exchanged>>

session == <<frame_str, heli_demix, rev4_servos>>
snapshot == <<state, position, position_offset, frame_counter, parse, first_pos>>
kinematics == <<target_speedup, wall_time_us, last_time_us, time_now_us, state_kin,
                velocity_ef, dcm, accel_body, last_velocity_ef, dt_us, exchanged>>
\* everything but the kinematics and the frame counter
protocol == <<frame_str, heli_demix, rev4_servos, controller_started, state, position,
              position_offset, pc, action, servos, sock, sends, wire, resp, reply, ret,
              expected_length, status, recvs, first_ret, printed, requests, sent, log, parse,
              first_pos>>
soap_locals == <<sends, wire, resp, reply, ret, expected_length, recvs, first_ret, printed>>

NoParse == [called |-> FALSE, missing |-> {}, wild |-> FALSE]
ZeroVec == <<0, 0, 0>>
IsZero(v) == v[1] = 0 /\ v[2] = 0 /\ v[3] = 0

MSG_START == "Starting controller"
MSG_NODATA == "No data"
MSG_NOLENGTH == "No Content-Length"
MSG_NOBODY == "No body"
MSG_TOOLARGE == "Reply too large"

\* the object after construction, but for its clock and speedup
Constructed ==
    /\ frame_str \in FrameStrings
    /\ heli_demix = (StrStr(frame_str, 1, HELI) # 0)
    /\ rev4_servos = (StrStr(frame_str, 1, REV4) # 0)
    /\ controller_started = FALSE
    /\ state = ZeroState
    /\ position = ZeroVec
    /\ position_offset = ZeroVec
    /\ frame_counter = 0
    /\ pc = "idle"
    /\ action = "none"
    /\ servos = <<>>
    /\ sock = 0
    /\ sends = 0
    /\ wire = Empty
    /\ resp = Empty
    /\ reply = Empty
    /\ ret = 0
    /\ expected_length = 0
    /\ status = "none"
    /\ recvs = 0
    /\ first_ret = 0
    /\ printed = 0
    /\ requests = <<>>
    /\ sent = <<>>
    /\ log = <<>>
    /\ parse = NoParse
    /\ first_pos = <<>>
    /\ time_now_us = 0
    /\ state_kin = KinZero
    /\ velocity_ef = <<0, 0, 0>>
    /\ dcm = from_euler(0, 0, 0)
    /\ accel_body = <<Num(0), Num(0), Num(-GRAVITY_MSS)>>
    /\ last_velocity_ef = <<0, 0, 0>>
    /\ dt_us = 0
    /\ exchanged = FALSE

Init ==
    /\ Constructed
    /\ target_speedup = [num |-> 1, den |-> 1]
    /\ wall_time_us = WALL_START
    /\ last_time_us = wall_time_us

(* ------------------------------------------------------------------ *)
(* soap_request                                                        *)
(* ------------------------------------------------------------------ *)
\* SocketAPM sock(false): the constructor creates a descriptor
OpenSock(n) == n + 1
\* the destructor of the local SocketAPM closes its descriptor
CloseSock(n) == n - 1

\* entry of soap_request(act, ...), up to the connect
Call(act, input) ==
    /\ pc' = "connect"
    /\ action' = act
    /\ requests' = Append(requests, act)
    /\ sent' = IF act = "ExchangeData" THEN ChannelValues(input, rev4_servos, heli_demix)
               ELSE <<>>
    /\ sock' = OpenSock(sock)
    /\ sends' = 0
    /\ wire' = Empty
    /\ resp' = Empty
    /\ reply' = Empty
    /\ ret' = 0
    /\ expected_length' = 0
    /\ status' = "none"
    /\ recvs' = 0
    /\ first_ret' = 0
    /\ printed' = 0

\* a return of soap_request: the socket goes out of scope
Return_KeepOpen(st) ==
    /\ pc' = "returned"
    /\ status' = st
    /\ sock' = sock
Return(st) ==
    /\ pc' = "returned"
    /\ status' = st
    /\ sock' = CloseSock(sock)

\* printf of a diagnostic, then return nullptr
Fail(st, msg) ==
    /\ log' = Append(log, msg)
    /\ printed' = printed + 1
    /\ Return(st)

\* return with nothing printed
Silent(st) ==
    /\ UNCHANGED <<log, printed>>
    /\ Return(st)

\* expected_length >= sizeof(reply), on a uint32_t
TooLarge(e) == e[2] > 0 \/ e[1] >= REPLY_SIZE

\* the negation of the loop condition ret < expected_length
LoopDone_FirstChunk(r, expected) == r > 0
LoopDone(r, expected) == ~(r < expected)

\* sock.connect(): failure returns nullptr at once; success sends the request (sock.send)
Connect(ok, r) ==
    /\ pc = "connect"
    /\ IF ok
       THEN /\ sends' = sends + 1
            /\ resp' = r
            /\ wire' = r
            /\ pc' = "recv_first"
            /\ UNCHANGED <<sock, status, log, reply, ret, expected_length, recvs, first_ret,
                           printed>>
       ELSE /\ Silent("ConnectFailed")
            /\ UNCHANGED <<sends, wire, resp, reply, ret, expected_length, recvs, first_ret>>
    /\ UNCHANGED <<session, controller_started, snapshot, action, servos, requests, sent>>
    /\ UNCHANGED kinematics

\* the checks made on the first chunk, in the order of the code: ret, p, body, and
\* expected_length against sizeof(reply)
HeaderCheck_LengthFirst(n, p, sep, expected) ==
    IF p = 0 THEN "NoLength"
    ELSE IF n <= 0 THEN "NoData"
    ELSE IF sep = 0 THEN "NoBody"
    ELSE IF TooLarge(expected) THEN "ReplyTooLarge"
    ELSE "pass"
HeaderCheck(n, p, sep, expected) ==
    IF n <= 0 THEN "NoData"
    ELSE IF p = 0 THEN "NoLength"
    ELSE IF sep = 0 THEN "NoBody"
    ELSE IF TooLarge(expected) THEN "ReplyTooLarge"
    ELSE "pass"

\* the size passed to recv with r bytes in the buffer: sizeof(reply)-(1+ret), and
\* sizeof(reply)-1 for the first recv
RecvLen_NoTerminator(r) == REPLY_SIZE - r
RecvLen(r) == REPLY_SIZE - (1 + r)

\* the first recv and the header checks
RecvFirst(n) ==
    /\ pc = "recv_first"
    /\ LET buf == IF n > 0 THEN Take(wire, n) ELSE Empty
           text == CString(buf)
           p == StrStr(text, 1, CL_KEY)
           content_length == ToUint32(StrToUL(text, p + CL_KEY_LEN))
           sep == StrStr(text, p, CRLFCRLF)
           body == sep + SEP_LEN
           expected == AddUint32(content_length, body - 1)
           check == HeaderCheck(n, p, sep, expected)
       IN /\ reply' = buf
          /\ ret' = n
          /\ wire' = IF n > 0 THEN Drop(wire, n) ELSE wire
          /\ recvs' = 1
          /\ first_ret' = n
          /\ IF check = "NoData" THEN Fail("NoData", MSG_NODATA) /\ UNCHANGED expected_length
             ELSE IF check = "NoLength"
                  THEN Fail("NoLength", MSG_NOLENGTH) /\ UNCHANGED expected_length
             ELSE IF check = "NoBody"
                  THEN Fail("NoBody", MSG_NOBODY) /\ UNCHANGED expected_length
             ELSE IF check = "ReplyTooLarge"
                  THEN Fail("ReplyTooLarge", MSG_TOOLARGE) /\ UNCHANGED expected_length
             ELSE /\ expected_length' = expected[1]
                  /\ IF LoopDone(n, expected[1])
                     THEN Silent("ok")
                     ELSE pc' = "recv_more" /\ UNCHANGED <<status, log, printed, sock>>
    /\ UNCHANGED <<session, controller_started, snapshot, action, servos, sends, resp, requests,
                   sent>>
    /\ UNCHANGED kinematics

\* if (ret2 <= 0)
RecvFailed_NegativeOnly(n) == n < 0
RecvFailed(n) == n <= 0

\* one iteration of the continuation loop
RecvMore(n) ==
    /\ pc = "recv_more"
    /\ recvs' = recvs + 1
    /\ IF RecvFailed(n)
       THEN Silent("IncompleteBody") /\ UNCHANGED <<reply, ret, wire>>
       ELSE /\ reply' = Cat(reply, Take(wire, n))
            /\ ret' = ret + n
            /\ wire' = Drop(wire, n)
            /\ IF LoopDone(ret + n, expected_length)
               THEN Silent("ok")
               ELSE UNCHANGED <<pc, status, log, printed, sock>>
    /\ UNCHANGED <<session, controller_started, snapshot, action, servos, sends, resp,
                   expected_length, first_ret, requests, sent>>
    /\ UNCHANGED kinematics

(* ------------------------------------------------------------------ *)
(* exchange_data and update                                            *)
(* ------------------------------------------------------------------ *)
\* if (!controller_started)
NeedsBootstrap_Always(started) == TRUE
NeedsBootstrap(started) == ~started

\* the soap_request that exchange_data makes after the one for `act` returned
NextCall_SkipFirstExchange(act) ==
    IF act = "RestoreOriginalControllerDevice" THEN "InjectUAVControllerInterface" ELSE "none"
NextCall(act) ==
    IF act = "RestoreOriginalControllerDevice" THEN "InjectUAVControllerInterface"
    ELSE IF act = "InjectUAVControllerInterface" THEN "ExchangeData"
    ELSE "none"

\* if (reply)
ShouldParse_Always(st) == TRUE
ShouldParse(st) == st = "ok"

\* Vector3f(state.m_aircraftPositionY_MTR, state.m_aircraftPositionX_MTR, -state.m_altitudeAGL_MTR)
ConvertPosition(st) ==
    <<st["m_aircraftPositionY_MTR"], st["m_aircraftPositionX_MTR"], -st["m_altitudeAGL_MTR"]>>

VecSub(a, b) == <<a[1] - b[1], a[2] - b[2], a[3] - b[3]>>

\* if (position_offset.is_zero()) position_offset = position
NewOffset_Always(offset, pos) == pos
NewOffset(offset, pos) == IF IsZero(offset) THEN pos ELSE offset

\* update() is called: exchange_data up to its first connect
Update(input) ==
    /\ pc = "idle"
    /\ frame_counter < MaxTicks
    /\ servos' = input
    /\ parse' = NoParse
    /\ IF NeedsBootstrap(controller_started)
       THEN /\ log' = <<MSG_START>>
            /\ Call("RestoreOriginalControllerDevice", input)
       ELSE /\ log' = <<>>
            /\ Call("ExchangeData", input)
    /\ UNCHANGED <<session, controller_started, state, position, position_offset,
                   frame_counter, first_pos>>
    /\ UNCHANGED kinematics

\* the rest of update() after exchange_data, as far as the protocol goes: the position,
\* its origin and the frame counter (the time base, attitude, velocity and acceleration
\* are followed by Tick)
FinishUpdate(o) ==
    LET pos == ConvertPosition(o.state)
        offset == NewOffset(position_offset, pos)
    IN /\ state' = o.state
       /\ position_offset' = offset
       /\ position' = VecSub(pos, offset)
       /\ frame_counter' = frame_counter + 1
       /\ first_pos' = IF first_pos = <<>> /\ o.called THEN pos ELSE first_pos
       /\ pc' = "idle"
       /\ action' = "none"
       /\ servos' = <<>>
       /\ sent' = <<>>
       /\ status' = "none"
       /\ log' = <<>>
       /\ sends' = 0
       /\ wire' = Empty
       /\ resp' = Empty
       /\ reply' = Empty
       /\ ret' = 0
       /\ expected_length' = 0
       /\ recvs' = 0
       /\ first_ret' = 0
       /\ printed' = 0

\* a bootstrap soap_request returned: free(reply), then the next request
ResumeBootstrap ==
    /\ pc = "returned"
    /\ action # "ExchangeData"
    /\ controller_started' = (controller_started \/ action = "InjectUAVControllerInterface")
    /\ IF NextCall(action) = "none"
       THEN \* exchange_data and update run to their end without an exchange
            /\ FinishUpdate([state |-> state, called |-> FALSE, missing |-> {}, scan |-> 0])
            /\ UNCHANGED <<sock, requests, parse>>
       ELSE /\ Call(NextCall(action), servos)
            /\ UNCHANGED <<state, position, position_offset, frame_counter, servos, log,
                           parse, first_pos>>
    /\ UNCHANGED session
    /\ UNCHANGED kinematics

\* the ExchangeData soap_request returned: parse_reply and the rest of update()
ResumeExchange ==
    /\ pc = "returned"
    /\ action = "ExchangeData"
    /\ \E o \in (IF ShouldParse(status)
                 THEN {[state |-> r.state, called |-> TRUE, missing |-> r.missing,
                        scan |-> r.scan, crashed |-> r.crashed, log |-> r.log]
                         : r \in parse_reply(CString(reply), state)}
                 ELSE {[state |-> state, called |-> FALSE, missing |-> {}, scan |-> 0,
                        crashed |-> FALSE, log |-> <<>>]}) :
          /\ parse' = [called |-> o.called, missing |-> o.missing, wild |-> (o.scan = WILD)]
          /\ IF o.crashed
             THEN \* the process faults inside parse_reply
                  /\ pc' = "crashed"
                  /\ log' = log \o o.log
                  /\ state' = o.state
                  /\ UNCHANGED <<position, position_offset, frame_counter, first_pos, action,
                                 servos, sent, status, soap_locals>>
             ELSE FinishUpdate(o)
    /\ UNCHANGED <<session, controller_started, sock, requests>>
    /\ UNCHANGED kinematics

\* last_time_us = now
NewLastTime_Stale(now, last) == last
NewLastTime(now, last) == now

\* update() as a whole, with exchange_data reduced to what it does to the state struct:
\* a new snapshot (ok) or nothing; the wall clock has advanced by d since it was last read
Tick(ok, snap, d) ==
    /\ frame_counter < MaxKinTicks
    /\ LET now == wall_time_us + d
           dt == DtOf(now, last_time_us, target_speedup)
           st == IF ok THEN snap ELSE state_kin
           m == from_euler(st.att[1], st.att[2], -st.att[3])
       IN /\ last_velocity_ef' = velocity_ef
          /\ state_kin' = st
          /\ exchanged' = ok
          /\ wall_time_us' = now
          /\ dt_us' = dt
          /\ dcm' = m
          /\ velocity_ef' = st.vel
          /\ accel_body' = AccelBody(st.vel, velocity_ef, dt, m)
          /\ time_now_us' = time_now_us + dt
          /\ frame_counter' = frame_counter + 1
          /\ last_time_us' = NewLastTime(now, last_time_us)
    /\ UNCHANGED <<protocol, target_speedup>>

Next ==
    \/ \E input \in ServoInputs : Update(input)
    \/ \E ok \in BOOLEAN, r \in Responses : Connect(ok, r)
    \/ \E n \in RecvResults(wire, RecvLen(0)) : RecvFirst(n)
    \/ \E n \in RecvResults(wire, RecvLen(ret)) : RecvMore(n)
    \/ ResumeBootstrap
    \/ ResumeExchange

Spec == Init /\ [][Next]_vars

\* the kinematic part of update(), for every speedup
TickInit ==
    /\ Constructed
    /\ target_speedup \in Speedups
    /\ wall_time_us = WALL_START
    /\ last_time_us = wall_time_us

TickNext == \E ok \in BOOLEAN, snap \in KinSnapshots, d \in ClockSteps : Tick(ok, snap, d)

TickSpec == TickInit /\ [][TickNext]_vars

\* every blocking call of soap_request returns: connect, and each recv by its timeout
LiveSpec ==
    /\ Spec
    /\ WF_vars(\E ok \in BOOLEAN, r \in Responses : Connect(ok, r))
    /\ WF_vars(\E n \in RecvResults(wire, RecvLen(0)) : RecvFirst(n))
    /\ WF_vars(\E n \in RecvResults(wire, RecvLen(ret)) : RecvMore(n))

(* ------------------------------------------------------------------ *)
(* Properties                                                          *)
(* ------------------------------------------------------------------ *)
RESTORE == "RestoreOriginalControllerDevice"
INJECT == "InjectUAVControllerInterface"
EXCHANGE == "ExchangeData"
Count(seq, x) == Cardinality({i \in 1..Len(seq) : seq[i] = x})

\* C1: over any number of updates the Restore and Inject requests are each made exactly
\* once, Restore first, Inject second, both in the first update and before the first
\* ExchangeData, whatever the requests' outcomes; controller_started is true from the
\* first update on and is never reset.
C1_BootstrapOnce ==
    /\ [](/\ \A i \in 1..Len(requests) :
                requests[i] = (IF i = 1 THEN RESTORE ELSE IF i = 2 THEN INJECT ELSE EXCHANGE)
          /\ (pc # "idle" \/ frame_counter >= 1) => Count(requests, RESTORE) = 1
          /\ Len(requests) <= 2 => frame_counter = 0
          /\ (frame_counter >= 1 \/ Len(requests) >= 3) =>
                (controller_started /\ Count(requests, INJECT) = 1))
    /\ [][controller_started => controller_started']_vars

\* a second update is exchanging data after a first update whose requests were made
C1_Witness ==
    /\ frame_counter = 1
    /\ pc = "recv_first"
    /\ controller_started
    /\ requests = <<RESTORE, INJECT, EXCHANGE, EXCHANGE>>

\* C2: every update makes exactly one ExchangeData request: the first update makes it
\* after the bootstrap whatever the bootstrap's outcome, and a failed one is not retried.
C2_OneExchangePerTick ==
    LET n == Count(requests, EXCHANGE)
    IN /\ pc = "idle" => n = frame_counter
       /\ (pc # "idle" /\ action = EXCHANGE) => n = frame_counter + 1
       /\ (pc # "idle" /\ action # EXCHANGE) => (n = frame_counter /\ frame_counter = 0)

\* the first update's only ExchangeData request has failed at the connect
C2_Witness ==
    /\ frame_counter = 0
    /\ pc = "returned"
    /\ action = EXCHANGE
    /\ status = "ConnectFailed"
    /\ Count(requests, EXCHANGE) = 1

\* C3: when the ExchangeData request of an update fails at any stage, parse_reply is not
\* called and every keytable destination keeps the value it had before the update.
C3_FailedExchangeKeepsState ==
    [][(pc = "returned" /\ action = EXCHANGE /\ status # "ok")
          => (state' = state /\ ~parse'.called /\ pc' = "idle")]_vars

\* an update whose exchange failed has ended with the snapshot of an earlier update
C3_Witness ==
    /\ pc = "idle"
    /\ frame_counter = 2
    /\ ~parse.called
    /\ state # ZeroState

\* what the received text declares, read without any integer width
HdrKeyAt(b) == StrStr(CString(b), 1, CL_KEY)
HdrSepAt(b) == StrStr(CString(b), HdrKeyAt(b), CRLFCRLF)
HasHeader(b) == HdrKeyAt(b) # 0 /\ HdrSepAt(b) # 0
\* offset of the body in the text
BodyOffset(b) == HdrSepAt(b) + SEP_LEN - 1
RECURSIVE StripZeros(_)
StripZeros(d) == IF Len(d) > 1 /\ d[1] = "0" THEN StripZeros(Tail(d)) ELSE d
DeclaredDigits(b) ==
    LET t == CString(b)
        a == HdrKeyAt(b) + CL_KEY_LEN
    IN StripZeros(SubSeq(t, a, DigitsEnd(t, a) - 1))
\* declared length + body offset > REPLY_SIZE
DeclaredExceeds(b) ==
    LET d == DeclaredDigits(b)
    IN Len(d) > 5 \/ (Len(d) >= 1 /\ IntVal(d, 1, Len(d) + 1) + BodyOffset(b) > REPLY_SIZE)

\* C4: a reply whose first chunk holds a Content-Length header declaring N and the
\* header/body separator, with body offset + N above the buffer size (10000), makes
\* soap_request fail as too large without a continuation receive, for every N.
C4_OversizedRejected ==
    (pc \in {"recv_more", "returned"} /\ recvs >= 1 /\ HasHeader(reply) /\ DeclaredExceeds(reply))
        => (pc = "returned" /\ status = "ReplyTooLarge" /\ recvs = 1)

\* the rejection where the sum stays below 2^32
C4_RejectedWithoutWrap ==
    (pc \in {"recv_more", "returned"} /\ recvs >= 1 /\ HasHeader(reply) /\ DeclaredExceeds(reply)
       /\ Len(DeclaredDigits(reply)) <= 5)
        => (pc = "returned" /\ status = "ReplyTooLarge" /\ recvs = 1)

\* every receive of the request in progress returned bytes
AllArrived == status \notin {"ConnectFailed", "NoData", "IncompleteBody"}

\* C5 as stated: a well-formed response below the buffer size, delivered in any sequence
\* of non-empty receives, makes soap_request return the text a single receive gives.
C5_AnyFragmentation ==
    (pc = "returned" /\ resp \in WellFormedResponses /\ Size(resp) < REPLY_SIZE /\ AllArrived)
        => (status = "ok" /\ reply = resp)

\* C5 amended: the same, for the deliveries whose first receive holds the header block
\* up to and including the blank line.
C5_FragmentationAfterHeader ==
    (pc = "returned" /\ resp \in WellFormedResponses /\ Size(resp) < REPLY_SIZE /\ AllArrived
       /\ first_ret >= BodyOffset(resp))
        => (status = "ok" /\ reply = resp)

\* a well-formed response was put together from three or more receives
C5_Witness ==
    /\ pc = "returned"
    /\ resp \in WellFormedResponses
    /\ recvs >= 3
    /\ first_ret < Size(resp)
    /\ status = "ok"
    /\ reply = resp

\* C6: the position converted from the first parsed snapshot is the origin: the position
\* reported by that update is zero and every later update reports its converted position
\* minus that origin.
C6_OriginFromFirstSnapshot ==
    (pc = "idle" /\ first_pos # <<>> /\ parse.missing = {} /\ ~parse.wild)
        => (position_offset = first_pos /\ position = VecSub(ConvertPosition(state), first_pos))

\* the response ends with the body that carries reading r, as elements or as assignments
Carries(b, r) ==
    \E body \in {Body(r), BodyAssign(r)} :
        /\ Len(b.text) >= Len(body)
        /\ SubSeq(b.text, Len(b.text) - Len(body) + 1, Len(b.text)) = body

\* C7: a reply text that holds every key of the table in table order, each followed by
\* one delimiter character and a number, leaves in each field's destination the number
\* that follows its key.
C7_RoundTrip ==
    [][\A r \in Readings :
          (pc = "returned" /\ action = EXCHANGE /\ status = "ok"
             /\ reply \in WellFormedResponses /\ Carries(reply, r))
          => (pc' = "idle" /\ \A i \in 1..num_keys : state'[keytable[i].ref] = r[i].val)]_vars

\* an update has parsed the typical reading into the three destinations
C7_Witness ==
    /\ pc = "idle"
    /\ parse.called
    /\ parse.missing = {}
    /\ state["m_altitudeAGL_MTR"] = 1200
    /\ state["m_aircraftPositionX_MTR"] = -250
    /\ state["m_aircraftPositionY_MTR"] = 307

\* C8: when a key is not found parse_reply prints a diagnostic, keeps its scan position
\* inside the reply text, goes on with the next field, and the update completes.
C8_MissingKeyContinues ==
    (parse.called /\ parse.missing # {}) => (pc = "idle" /\ ~parse.wild)

\* C9: every soap_request that returns nullptr has printed a diagnostic first.
C9_FailuresLogged ==
    (pc = "returned" /\ status # "ok") => printed >= 1

\* the failures that do print
C9_PrintingFailures ==
    (pc = "returned" /\ status \in {"NoData", "NoLength", "NoBody", "ReplyTooLarge"})
        => (printed = 1 /\ log # <<>>)

\* (p - 1000) / 1000 as the decimal with four places, in units of 1/10000
N4(p) == (p - 1000) * 10
Rev4Expected(in) ==
    <<N4(in[5]), N4(in[6]), N4(in[7]), N4(in[8]), N4(in[1]), N4(in[2]), N4(in[3]), N4(in[4])>>

\* C10 as stated: with rev4 the values sent for pulses [a,b,c,d,e,f,g,h] are
\* [n(e),n(f),n(g),n(h),n(a),n(b),n(c),n(d)], n(p) = (p - 1000)/1000, unclamped.
C10_Rev4Swap ==
    (rev4_servos /\ sent # <<>>) => sent = Rev4Expected(servos)

\* C10 amended: with rev4 the values sent in places 2..7 are n(g),n(h),n(a),n(b),n(c),n(d),
\* and those in places 0 and 1 are n(e),n(f) unless the frame also enables the heli demix.
C10_Rev4SwapOutsideDemix ==
    (rev4_servos /\ sent # <<>>) =>
        /\ \A i \in 3..NUM_SERVOS : sent[i] = Rev4Expected(servos)[i]
        /\ ~heli_demix => sent = Rev4Expected(servos)

\* a rev4 frame without demix sends a request whose pulses are outside 1000..2000
C10_Witness ==
    /\ rev4_servos
    /\ ~heli_demix
    /\ pc = "recv_first"
    /\ action = EXCHANGE
    /\ servos[8] = 65535
    /\ servos[1] = 900
    /\ sent[4] = 645350
    /\ sent[5] = -1000

\* the normalized values at the point the demix is applied, in units of 1/10000
PreDemix(in, rev4) == IF rev4 THEN Rev4Expected(in) ELSE [i \in 1..NUM_SERVOS |-> N4(in[i])]
\* clamp(x, 0, 1) in units of 1/10000
Clamp01(x) == IF x < 0 THEN 0 ELSE IF x > 10000 THEN 10000 ELSE x

\* C11: with the heli demix the value sent in place 0 is clamp(s0 - s1 + 0.5, 0, 1) and
\* the one in place 1 is clamp(-((s0 + s1)/2 - s2) + 0.5, 0, 1), s0,s1,s2 being the first
\* three normalized values when the demix is applied; both lie in [0,1] for any pulses,
\* and places 2..7 are sent as they were before the demix.
C11_Demix ==
    (heli_demix /\ sent # <<>>) =>
        LET s == PreDemix(servos, rev4_servos)
        IN /\ sent[1] = Clamp01(s[1] - s[2] + 5000)
           /\ sent[2] = Clamp01(-(((s[1] + s[2]) \div 2) - s[3]) + 5000)
           /\ \A i \in 1..2 : 0 <= sent[i] /\ sent[i] <= 10000
           /\ \A i \in 3..NUM_SERVOS : sent[i] = s[i]

\* a heli frame sends a request whose roll value was clamped from below, another value
\* being far outside the pulse range
C11_Witness ==
    /\ heli_demix
    /\ ~rev4_servos
    /\ pc = "recv_first"
    /\ action = EXCHANGE
    /\ servos[1] = 900
    /\ servos[2] = 2100
    /\ sent[1] = 0
    /\ sent[8] = 645350

\* C12: every soap_request has one socket of its own, opened at its entry and closed
\* when it returns, with or without a reply; never more than one is open, none is open
\* between updates, and a request whose connect failed has sent and received nothing.
C12_ConnectionLifecycle ==
    /\ sock \in {0, 1}
    /\ sock = 1 <=> pc \in {"connect", "recv_first", "recv_more"}
    /\ pc \in {"idle", "returned", "crashed"} => sock = 0
    /\ pc \in {"recv_first", "recv_more"} => sends = 1
    /\ (pc = "returned" /\ status = "ConnectFailed") => (sends = 0 /\ recvs = 0)
    /\ (pc = "returned" /\ status # "ConnectFailed") => (sends = 1 /\ recvs >= 1)

\* the fourth request of a run has returned without its body, after earlier requests
\* that opened and closed their own sockets
C12_Witness ==
    /\ pc = "returned"
    /\ status = "IncompleteBody"
    /\ Len(requests) = 4
    /\ sock = 0
    /\ sends = 1
    /\ recvs >= 2

\* the length a response declares (for declarations of at most four digits)
DeclaredN(b) == IntVal(DeclaredDigits(b), 1, Len(DeclaredDigits(b)) + 1)

\* C14: a successful soap_request returns the N bytes that follow the first blank line,
\* N being the declared Content-Length, and has received exactly body offset + N bytes:
\* no header block and nothing beyond the declared length.
C14_ReturnsBody ==
    (pc = "returned" /\ status = "ok" /\ Len(DeclaredDigits(resp)) <= 4) =>
        /\ reply = Take(Drop(resp, BodyOffset(resp)), DeclaredN(resp))
        /\ ret = BodyOffset(resp) + DeclaredN(resp)

\* what it does return: everything received, header block first, which is at least
\* body offset + N bytes
C14_ReturnsReceived ==
    (pc = "returned" /\ status = "ok" /\ Len(DeclaredDigits(resp)) <= 4) =>
        /\ reply = Take(resp, ret)
        /\ ret >= BodyOffset(resp) + DeclaredN(resp)
        /\ HdrKeyAt(reply) # 0

\* the first chunk of the request in progress, as text
FirstChunk == CString(Take(resp, first_ret))
FirstKeyAt == StrStr(FirstChunk, 1, CL_KEY)
FirstSepAt == StrStr(FirstChunk, FirstKeyAt, CRLFCRLF)

\* C15: the reader's outcome is decided in the order NoData, NoLength, NoBody,
\* ReplyTooLarge, IncompleteBody: the first three from the first chunk alone, and a
\* continuation receive is made only when all four earlier checks have passed.
C15_ErrorPrecedence ==
    /\ (pc = "returned" /\ recvs >= 1) =>
          /\ status = "NoData" <=> first_ret <= 0
          /\ status = "NoLength" <=> (first_ret > 0 /\ FirstKeyAt = 0)
          /\ status = "NoBody" <=> (first_ret > 0 /\ FirstKeyAt # 0 /\ FirstSepAt = 0)
          /\ status \in {"NoData", "NoLength", "NoBody", "ReplyTooLarge"} => recvs = 1
          /\ status = "IncompleteBody" => (recvs >= 2 /\ ret < expected_length)
    /\ (pc = "recv_more" \/ (pc = "returned" /\ recvs >= 2)) =>
          /\ first_ret > 0 /\ FirstKeyAt # 0 /\ FirstSepAt # 0
          /\ expected_length < REPLY_SIZE
          /\ first_ret < expected_length
          /\ status \in {"none", "ok", "IncompleteBody"}

\* a response without a blank line after its Content-Length header was refused on the
\* first chunk
C15_Witness ==
    /\ pc = "returned"
    /\ status = "NoBody"
    /\ first_ret > 0
    /\ FirstKeyAt # 0
    /\ FirstSepAt = 0
    /\ recvs = 1

\* C17: the bytes stored in the reply buffer never number more than 9999, so its last
\* byte keeps the zero of the memset; every continuation recv asks for at least one
\* byte and for no more than the room left before the last byte.
C17_BufferBound ==
    /\ Size(reply) <= REPLY_SIZE - 1
    /\ ret > 0 => Size(reply) = ret
    /\ pc = "recv_more" =>
          /\ RecvLen(ret) >= 1
          /\ ret + RecvLen(ret) <= REPLY_SIZE - 1

\* a continuation recv has filled the buffer up to its last byte but one, with more
\* bytes still to arrive
C17_Witness ==
    /\ pc = "returned"
    /\ status = "ok"
    /\ recvs >= 2
    /\ Size(reply) = REPLY_SIZE - 1
    /\ Size(wire) > 0

\* C18: a soap_request whose socket calls return always returns; in the continuation
\* loop the bytes received are fewer than an expected length below 10000 and every
\* recv that does not end the request adds at least one byte, so the loop makes fewer
\* recv calls than the buffer has bytes.
C18_Terminates ==
    /\ [](pc = "recv_more" =>
            /\ 1 <= ret /\ ret < expected_length /\ expected_length < REPLY_SIZE
            /\ recvs <= ret)
    /\ [](recvs <= REPLY_SIZE - 1)
    /\ [][(pc = "recv_more" /\ pc' = "recv_more") => ret' > ret]_vars
    /\ (pc \in {"connect", "recv_first", "recv_more"}) ~> (pc = "returned")

\* a request has returned after a continuation loop of three or more recv calls
C18_Witness ==
    /\ pc = "returned"
    /\ recvs >= 4
    /\ status \in {"ok", "IncompleteBody"}

\* C19: a position_offset that is not the zero vector is never changed; it is assigned
\* only by an update at whose start it is the zero vector; and every update ends with
\* position equal to the converted position minus the position_offset it ends with.
C19_OriginStable ==
    [][/\ ~IsZero(position_offset) => position_offset' = position_offset
       /\ position_offset' # position_offset =>
              (IsZero(position_offset) /\ pc = "returned" /\ pc' = "idle")
       /\ (pc = "returned" /\ pc' = "idle") =>
              position' = VecSub(ConvertPosition(state'), position_offset')]_vars

\* a second update has parsed a new snapshot and reports it against the origin that
\* the first update captured
C19_Witness ==
    /\ pc = "idle"
    /\ frame_counter = 2
    /\ parse.called /\ parse.missing = {}
    /\ ~IsZero(position_offset)
    /\ position_offset = first_pos
    /\ ~IsZero(position)

\* the acceleration the derivation gives, in exact arithmetic: the quotient of the
\* velocity change by dt (for dt = 0 its limit: nothing for no change, beyond any bound
\* for a change), less gravity on the vertical axis, rotated by the attitude, clamped
LimitQuot(dv, dt) ==
    IF dt > 0 THEN DivDt(dv, dt).v ELSE Sign(dv) * 4 * ACCEL_LIMIT * ACC_UNIT
Clamp16(x) ==
    IF x < -ACCEL_LIMIT * ACC_UNIT THEN -ACCEL_LIMIT * ACC_UNIT
    ELSE IF x > ACCEL_LIMIT * ACC_UNIT THEN ACCEL_LIMIT * ACC_UNIT ELSE x
ExpectedAccel ==
    LET a == [j \in 1..3 |-> LimitQuot(velocity_ef[j] - last_velocity_ef[j], dt_us)
                              - (IF j = 3 THEN GRAVITY_MSS ELSE 0)]
        m == from_euler(state_kin.att[1], state_kin.att[2], -state_kin.att[3])
    IN [i \in 1..3 |-> Clamp16(m[1][i] * a[1] + m[2][i] * a[2] + m[3][i] * a[3])]
AccelWithinLimit ==
    \A i \in 1..3 : /\ accel_body[i].k = "num"
                     /\ -ACCEL_LIMIT * ACC_UNIT <= accel_body[i].v
                     /\ accel_body[i].v <= ACCEL_LIMIT * ACC_UNIT

\* C13: after every update, for any dt >= 0 and with or without a new snapshot,
\* accel_body is the rotated value of (velocity change / dt_seconds, less gravity on the
\* vertical axis), each component within [-16, 16].
C13_AccelDerived ==
    frame_counter >= 1 =>
        /\ \A i \in 1..3 : accel_body[i] = Num(ExpectedAccel[i])
        /\ AccelWithinLimit

\* what holds for every dt: the limit; and for dt > 0: the derivation
C13_AccelDerivedPositiveDt ==
    /\ AccelWithinLimit
    /\ (frame_counter >= 1 /\ dt_us > 0) => \A i \in 1..3 : accel_body[i] = Num(ExpectedAccel[i])

\* half the spacing of the floats around n: what the conversion of n can be off by
HalfUlp(n) == IF BitLen(n) <= FLOAT_MANT THEN 0 ELSE Pow2(BitLen(n) - FLOAT_MANT) \div 2
\* wall-clock time elapsed since construction
Elapsed == wall_time_us - WALL_START

\* C16: every update, with or without a new snapshot, adds dt = (now - last_time) *
\* speedup to the simulated time once and then sets last_time to now; with a clock that
\* never goes back the simulated time never decreases, and the intervals measured by
\* successive updates follow one another without gap or overlap (the simulated time is
\* the speedup times the wall-clock time elapsed, to the precision of a float product
\* truncated to an integer).
C16_TimeBase ==
    /\ [][frame_counter' = frame_counter + 1 =>
            LET e == wall_time_us' - last_time_us
                num == target_speedup.num
                den == target_speedup.den
                d == time_now_us' - time_now_us
            IN /\ d = dt_us'
               /\ d >= 0
               /\ den * d <= num * (e + HalfUlp(e))
               /\ den * d >= num * (e - HalfUlp(e)) - (den - 1)
               /\ last_time_us' = wall_time_us']_vars
    /\ [](/\ last_time_us = wall_time_us
          /\ target_speedup.den * time_now_us
                <= target_speedup.num * (Elapsed + frame_counter * HalfUlp(LongStall))
          /\ target_speedup.den * time_now_us
                >= target_speedup.num * (Elapsed - frame_counter * HalfUlp(LongStall))
                   - frame_counter * (target_speedup.den - 1))

\* at double speed an update without a new snapshot has advanced the simulated time by
\* twice the wall-clock time that passed
C16_Witness ==
    /\ frame_counter >= 2
    /\ ~exchanged
    /\ target_speedup = [num |-> 2, den |-> 1]
    /\ dt_us = 8000
    /\ time_now_us = 2 * Elapsed
    /\ last_time_us = wall_time_us

====
